---- MODULE Spec2Model ----
(***************************************************************************)
(* Model of qr_compare (src/main.py): the scan loop of main(), the         *)
(* DecodedObjectFile constructor, DecodedObjectDetector.detect_objects,    *)
(* DecodedObjectFileIndex.create_index and DecodedObjectFolderComparison   *)
(* (compare and _compare_result).                                          *)
(*                                                                         *)
(* Paths are sequences of one-character strings, so that str.startswith    *)
(* and os.path.relpath are computed character by character.  Decoded       *)
(* payloads and symbol types are atomic strings.                           *)
(***************************************************************************)
EXTENDS Integers, Sequences, FiniteSets, TLC

(* ------------------------------ bounds -------------------------------- *)

\* most symbols the decoder reports for one file
MaxSymbols == 2
\* most decoded symbols over one whole scan
MaxItems == 3

(* ------------------------- strings and paths --------------------------- *)

\* os.sep
sep == "/"

\* Python's None, as the value of DecodedObjectFile.code
None == "<None>"

\* str.startswith
startswith(s, prefix) ==
    /\ Len(prefix) <= Len(s)
    /\ SubSeq(s, 1, Len(prefix)) = prefix

RECURSIVE split(_, _)
\* the non-empty components of a path, as posixpath.relpath splits them
split(s, cur) ==
    IF s = <<>>
    THEN IF cur = <<>> THEN <<>> ELSE <<cur>>
    ELSE IF Head(s) = sep
         THEN (IF cur = <<>> THEN <<>> ELSE <<cur>>) \o split(Tail(s), <<>>)
         ELSE split(Tail(s), Append(cur, Head(s)))

RECURSIVE join(_)
\* sep.join(parts)
join(parts) ==
    IF parts = <<>> THEN <<>>
    ELSE IF Len(parts) = 1 THEN parts[1]
    ELSE parts[1] \o <<sep>> \o join(Tail(parts))

RECURSIVE commonprefix(_, _)
\* length of the common leading run of two component lists
commonprefix(xs, ys) ==
    IF xs = <<>> \/ ys = <<>> \/ Head(xs) # Head(ys) THEN 0
    ELSE 1 + commonprefix(Tail(xs), Tail(ys))

\* the path made relative to the root instead of to start
relpath_from_root(fp, start) == join(split(fp, <<>>))

\* os.path.relpath(fp, start): '..' for every component of start below the
\* common prefix, then the rest of fp; '.' when nothing is left
relpath(fp, start) ==
    LET start_list == split(start, <<>>)
        path_list  == split(fp, <<>>)
        i          == commonprefix(start_list, path_list)
        ups        == [k \in 1..(Len(start_list) - i) |-> <<".", ".">>]
        rel_list   == ups \o SubSeq(path_list, i + 1, Len(path_list))
    IN  IF rel_list = <<>> THEN <<".">> ELSE join(rel_list)

(* --------------------------- the input space --------------------------- *)

\* two source directories, the second a sibling whose name has the first as
\* a string prefix
Directories == << <<"a">>, <<"a", "b">> >>

\* the files a scan may meet, in walk order
AllFiles == << <<"a", "/", "1">>,
               <<"a", "/", "b", "/", "1">>,
               <<"a", "b", "/", "1">> >>

\* what pyzbar reports for one symbol: its payload and its type
Symbols == { [data |-> "",  type |-> "QRCODE"],
             [data |-> "X", type |-> "QRCODE"],
             [data |-> "Y", type |-> "EAN13"] }

RECURSIVE SeqsUpTo(_, _)
SeqsUpTo(S, n) ==
    IF n = 0 THEN { <<>> }
    ELSE LET shorter == SeqsUpTo(S, n - 1)
         IN  shorter \cup { Append(q, x) : q \in shorter, x \in S }

\* the outcome of Image.open + decode on one file: an exception, or the list
\* of symbols found (possibly empty)
Outcomes ==
    { [raises |-> TRUE, objs |-> <<>>] }
    \cup { [raises |-> FALSE, objs |-> q] : q \in SeqsUpTo(Symbols, MaxSymbols) }

(* ------------------------- DecodedObjectFile --------------------------- *)

\* DecodedObjectFile.__init__: code = str(code) if code else None.  A payload
\* is falsy when it is None or the empty string.
DecodedObjectFile(code, type, filepath) ==
    [ code     |-> IF code # None /\ code # "" THEN code ELSE None,
      type     |-> type,
      filepath |-> filepath ]

\* DecodedObjectFile.is_not_detected
is_not_detected(obj) == obj.code = None

(* ------------------------ DecodedObjectDetector ------------------------ *)

\* detect_objects giving no item at all when decoding raised or found nothing
detect_objects_drop(filepath, outcome) ==
    IF ~outcome.raises /\ outcome.objs # <<>>
    THEN [ k \in 1..Len(outcome.objs) |->
             DecodedObjectFile(outcome.objs[k].data, outcome.objs[k].type, filepath) ]
    ELSE <<>>

\* detect_objects: the items of the symbols found; one not-detected item
\* when decoding raised or found nothing
detect_objects(filepath, outcome) ==
    IF ~outcome.raises /\ outcome.objs # <<>>
    THEN [ k \in 1..Len(outcome.objs) |->
             DecodedObjectFile(outcome.objs[k].data, outcome.objs[k].type, filepath) ]
    ELSE << DecodedObjectFile(None, None, filepath) >>

(* ----------------------- DecodedObjectFileIndex ------------------------ *)

\* the three empty collections create_index starts from; keys is the
\* insertion order of the dict detected
EmptyIndex ==
    [ detected   |-> [c \in {} |-> <<>>],
      keys       |-> <<>>,
      undetected |-> <<>>,
      code2type  |-> [c \in {} |-> None] ]

\* the loop body with the path list replaced instead of appended to
index_add_overwrite(idx, obj) ==
    IF is_not_detected(obj)
    THEN [idx EXCEPT !.undetected = Append(@, obj.filepath)]
    ELSE LET known == obj.code \in DOMAIN idx.detected
             codes == DOMAIN idx.detected \cup {obj.code}
         IN  [ detected   |-> [c \in codes |->
                                 IF c = obj.code THEN <<obj.filepath>>
                                 ELSE idx.detected[c]],
               keys       |-> IF known THEN idx.keys ELSE Append(idx.keys, obj.code),
               undetected |-> idx.undetected,
               code2type  |-> [c \in codes |->
                                 IF c = obj.code THEN obj.type ELSE idx.code2type[c]] ]

\* one pass of the loop body of create_index
index_add(idx, obj) ==
    IF is_not_detected(obj)
    THEN [idx EXCEPT !.undetected = Append(@, obj.filepath)]
    ELSE LET known == obj.code \in DOMAIN idx.detected
             codes == DOMAIN idx.detected \cup {obj.code}
         IN  [ detected   |-> [c \in codes |->
                                 IF c = obj.code
                                 THEN IF known
                                      THEN Append(idx.detected[c], obj.filepath)
                                      ELSE <<obj.filepath>>
                                 ELSE idx.detected[c]],
               keys       |-> IF known THEN idx.keys ELSE Append(idx.keys, obj.code),
               undetected |-> idx.undetected,
               code2type  |-> [c \in codes |->
                                 IF c = obj.code THEN obj.type ELSE idx.code2type[c]] ]

RECURSIVE index_from(_, _)
index_from(idx, objs) ==
    IF objs = <<>> THEN idx ELSE index_from(index_add(idx, Head(objs)), Tail(objs))

\* DecodedObjectFileIndex.create_index
create_index(objs) == index_from(EmptyIndex, objs)

\* DecodedObjectFileIndex.get_decoded_object_type
get_decoded_object_type(idx, code) == idx.code2type[code]

(* -------------------- DecodedObjectFolderComparison -------------------- *)

\* the containment test without the separator: a bare string prefix
under_no_sep(filepath, dirpath) == startswith(filepath, dirpath)

\* the containment test of compare and _compare_result
under(filepath, dirpath) == startswith(filepath, dirpath \o <<sep>>)

RECURSIVE count_under(_, _)
\* how many entries of filepaths lie under dirpath
count_under(filepaths, dirpath) ==
    IF filepaths = <<>> THEN 0
    ELSE (IF under(Head(filepaths), dirpath) THEN 1 ELSE 0)
         + count_under(Tail(filepaths), dirpath)

\* compare, lines 66-70: one count per directory
count_arr(filepaths, dirpaths) ==
    [ i \in 1..Len(dirpaths) |-> count_under(filepaths, dirpaths[i]) ]

\* the label list with the first test comparing against 0 instead of 1
labels_all_zero(cnts) ==
    IF \A i \in DOMAIN cnts : cnts[i] = 0
    THEN << "MATCH_ALL" >>
    ELSE LET missing    == IF \E i \in DOMAIN cnts : cnts[i] = 0
                           THEN << "MISSING" >> ELSE <<>>
             duplicated == IF \E i \in DOMAIN cnts : cnts[i] > 1
                           THEN << "DUPLICATED" >> ELSE <<>>
             found      == missing \o duplicated
         IN  IF Len(found) = 0 THEN << "INVALID" >> ELSE found

\* the label list with DUPLICATED tested by cnt >= 1 instead of cnt > 1
labels_dup_from_one(cnts) ==
    IF \A i \in DOMAIN cnts : cnts[i] = 1
    THEN << "MATCH_ALL" >>
    ELSE LET missing    == IF \E i \in DOMAIN cnts : cnts[i] = 0
                           THEN << "MISSING" >> ELSE <<>>
             duplicated == IF \E i \in DOMAIN cnts : cnts[i] >= 1
                           THEN << "DUPLICATED" >> ELSE <<>>
             found      == missing \o duplicated
         IN  IF Len(found) = 0 THEN << "INVALID" >> ELSE found

\* the label list with the all-ones test refusing an empty count vector
labels_nonempty_all(cnts) ==
    IF cnts # <<>> /\ \A i \in DOMAIN cnts : cnts[i] = 1
    THEN << "MATCH_ALL" >>
    ELSE LET missing    == IF \E i \in DOMAIN cnts : cnts[i] = 0
                           THEN << "MISSING" >> ELSE <<>>
             duplicated == IF \E i \in DOMAIN cnts : cnts[i] > 1
                           THEN << "DUPLICATED" >> ELSE <<>>
             found      == missing \o duplicated
         IN  IF Len(found) = 0 THEN << "INVALID" >> ELSE found

\* compare, lines 72-83: the label list of one count vector
labels(cnts) ==
    IF \A i \in DOMAIN cnts : cnts[i] = 1
    THEN << "MATCH_ALL" >>
    ELSE LET missing    == IF \E i \in DOMAIN cnts : cnts[i] = 0
                           THEN << "MISSING" >> ELSE <<>>
             duplicated == IF \E i \in DOMAIN cnts : cnts[i] > 1
                           THEN << "DUPLICATED" >> ELSE <<>>
             found      == missing \o duplicated
         IN  IF Len(found) = 0 THEN << "INVALID" >> ELSE found

\* compare: cmp_res for every code of the index
compare(idx, dirpaths) ==
    [ c \in DOMAIN idx.detected |-> labels(count_arr(idx.detected[c], dirpaths)) ]

RECURSIVE subpaths(_, _)
\* _compare_result, line 93: the relative paths of the files under dirpath
subpaths(filepaths, dirpath) ==
    IF filepaths = <<>> THEN <<>>
    ELSE (IF under(Head(filepaths), dirpath)
          THEN << relpath(Head(filepaths), dirpath) >> ELSE <<>>)
         \o subpaths(Tail(filepaths), dirpath)

\* _compare_result, lines 91-94: the row of one detected code
code_row(idx, res, dirpaths, code) ==
    [ result |-> res[code],
      code   |-> code,
      type   |-> get_decoded_object_type(idx, code),
      cols   |-> [ i \in 1..Len(dirpaths) |-> subpaths(idx.detected[code], dirpaths[i]) ] ]

\* the row of an undetected file without the containment test
undetected_row_no_test(fp, dirpaths) ==
    [ result |-> "NO_DETECTED",
      code   |-> "None",
      type   |-> "None",
      cols   |-> [ i \in 1..Len(dirpaths) |-> relpath(fp, dirpaths[i]) ] ]

\* _compare_result, lines 99-101: the row of one undetected file
undetected_row(fp, dirpaths) ==
    [ result |-> "NO_DETECTED",
      code   |-> "None",
      type   |-> "None",
      cols   |-> [ i \in 1..Len(dirpaths) |->
                     IF under(fp, dirpaths[i]) THEN relpath(fp, dirpaths[i]) ELSE <<>> ] ]

\* _compare_result: the header, then one row per code in dict order, then
\* one row per undetected file
compare_result(idx, res, dirpaths) ==
    [ header |-> << "Compare Result", "CODE", "Decoded Type" >>,
      dirs   |-> dirpaths,
      rows   |-> [ k \in 1..Len(idx.keys) |-> code_row(idx, res, dirpaths, idx.keys[k]) ]
                 \o [ k \in 1..Len(idx.undetected) |->
                        undetected_row(idx.undetected[k], dirpaths) ] ]

(* ------------------------------ the run -------------------------------- *)

VARIABLES
    files,         \* what the walk yields: [filepath, outcome] in scan order
    cmp_dirpaths,  \* the directory list given to the comparison
    pc,            \* "scan", "index", "compare" or "done"
    dec_objs,      \* main's dec_objs
    scanned,       \* how many files the scan loop has handled
    obj_index,     \* the DecodedObjectFileIndex
    cmp_res,       \* DecodedObjectFolderComparison.cmp_res
    report         \* what compare() returns

vars == << files, cmp_dirpaths, pc, dec_objs, scanned, obj_index, cmp_res, report >>

RECURSIVE symbols_in(_)
symbols_in(fs) ==
    IF fs = <<>> THEN 0 ELSE Len(Head(fs).outcome.objs) + symbols_in(Tail(fs))

RECURSIVE walk(_, _)
\* the files of AllFiles that exist (the domain of outcome), in walk order
walk(outcome, k) ==
    IF k > Len(AllFiles) THEN <<>>
    ELSE (IF k \in DOMAIN outcome
          THEN << [filepath |-> AllFiles[k], outcome |-> outcome[k]] >> ELSE <<>>)
         \o walk(outcome, k + 1)

\* every ordered choice of distinct directories, the empty list included
DirLists ==
    { <<>> }
    \cup { << Directories[i] >> : i \in DOMAIN Directories }
    \cup { << Directories[p[1]], Directories[p[2]] >> :
             p \in { q \in (DOMAIN Directories) \X (DOMAIN Directories) : q[1] # q[2] } }

NoReport == [header |-> <<>>, dirs |-> <<>>, rows |-> <<>>]

Init ==
    /\ \E exist \in SUBSET DOMAIN AllFiles :
         \E outcome \in [exist -> Outcomes] :
           /\ files = walk(outcome, 1)
           /\ symbols_in(files) <= MaxItems
    /\ cmp_dirpaths \in DirLists
    /\ pc = "scan"
    /\ dec_objs = <<>>
    /\ scanned = 0
    /\ obj_index = EmptyIndex
    /\ cmp_res = [c \in {} |-> <<>>]
    /\ report = NoReport

\* main, lines 133-136: one file of the scan loop
Detect ==
    /\ pc = "scan"
    /\ scanned < Len(files)
    /\ dec_objs' = dec_objs \o detect_objects(files[scanned + 1].filepath,
                                               files[scanned + 1].outcome)
    /\ scanned' = scanned + 1
    /\ UNCHANGED << files, cmp_dirpaths, pc, obj_index, cmp_res, report >>

\* main, line 138: the scan loop is over, the index is built
CreateIndex ==
    /\ pc = "scan"
    /\ scanned = Len(files)
    /\ obj_index' = create_index(dec_objs)
    /\ pc' = "compare"
    /\ UNCHANGED << files, cmp_dirpaths, dec_objs, scanned, cmp_res, report >>

\* main, lines 140-141: compare() classifies and returns the report
Compare ==
    /\ pc = "compare"
    /\ cmp_res' = compare(obj_index, cmp_dirpaths)
    /\ report' = compare_result(obj_index, cmp_res', cmp_dirpaths)
    /\ pc' = "done"
    /\ UNCHANGED << files, cmp_dirpaths, dec_objs, scanned, obj_index >>

Next == Detect \/ CreateIndex \/ Compare

Spec == Init /\ [][Next]_vars

(* ----------------------- vocabulary of the claims ----------------------- *)

Range(s) == { s[k] : k \in DOMAIN s }

\* how often x occurs in the sequence s
Occ(s, x) == Cardinality({ k \in DOMAIN s : s[k] = x })

Indexed == pc \in {"compare", "done"}
Done == pc = "done"

Codes == DOMAIN obj_index.detected
N == Len(cmp_dirpaths)

\* the path begins with the directory's characters followed by the separator
Contains(dirpath, path) ==
    /\ Len(path) > Len(dirpath)
    /\ \A k \in 1..Len(dirpath) : path[k] = dirpath[k]
    /\ path[Len(dirpath) + 1] = "/"

\* the entries of detected[c] that lie under directory i
Hits(c, i) ==
    Cardinality({ k \in DOMAIN obj_index.detected[c] :
                    Contains(cmp_dirpaths[i], obj_index.detected[c][k]) })

AllOnes(c) == \A i \in 1..N : Hits(c, i) = 1
SomeZero(c) == \E i \in 1..N : Hits(c, i) = 0
SomeMany(c) == \E i \in 1..N : Hits(c, i) > 1

InUndetected(path) == path \in Range(obj_index.undetected)
InDetected(path) == \E c \in Codes : path \in Range(obj_index.detected[c])

\* decoding the file raised or found no symbol
Failed(f) == f.outcome.raises \/ f.outcome.objs = <<>>

(* -------------------------------- C1 ----------------------------------- *)

\* C1: once the index is built, the file path of every item given to
\* create_index is in exactly one of the undetected list and the detected
\* lists: never in both, never in neither.
C1_PathInExactlyOne ==
    Indexed =>
      \A k \in DOMAIN dec_objs :
        InUndetected(dec_objs[k].filepath) # InDetected(dec_objs[k].filepath)

(* -------------------------------- C5 ----------------------------------- *)

\* C5: a symbol decoded with the empty string as payload is indexed under
\* the code "": its file is in detected[""] and not in the undetected list.
C5_EmptyCodeIsDetected ==
    Indexed =>
      \A k \in DOMAIN files :
        (~Failed(files[k]) /\ \E j \in DOMAIN files[k].outcome.objs :
                                 files[k].outcome.objs[j].data = "")
        => /\ "" \in Codes
           /\ files[k].filepath \in Range(obj_index.detected[""])
           /\ ~InUndetected(files[k].filepath)

(* -------------------------------- C2 ----------------------------------- *)

\* C2: a code that has exactly one file under each of the N directories is
\* labelled MATCH_ALL and nothing else.
C2_AllOnesIsMatchAll ==
    Done => \A c \in Codes : AllOnes(c) => cmp_res[c] = << "MATCH_ALL" >>

\* a code with one file in each of two directories has been classified
C2_Witness ==
    Done /\ N = 2 /\ \E c \in Codes : AllOnes(c)

(* -------------------------------- C3 ----------------------------------- *)

\* C3: for a code whose counts are not all 1, MISSING is among its labels
\* exactly when some count is 0, DUPLICATED exactly when some count is above
\* 1, each at most once, and there is no other label.
C3_MissingAndDuplicated ==
    Done =>
      \A c \in Codes :
        ~AllOnes(c) =>
          /\ Occ(cmp_res[c], "MISSING") = (IF SomeZero(c) THEN 1 ELSE 0)
          /\ Occ(cmp_res[c], "DUPLICATED") = (IF SomeMany(c) THEN 1 ELSE 0)
          /\ Range(cmp_res[c]) \subseteq {"MISSING", "DUPLICATED"}

\* a code missing from one directory and duplicated in the other, next to a
\* code that is only missing, has been classified
C3_Witness ==
    /\ Done
    /\ N = 2
    /\ \E c \in Codes : SomeZero(c) /\ SomeMany(c)
    /\ \E c \in Codes : SomeZero(c) /\ ~SomeMany(c)

(* -------------------------------- C9 ----------------------------------- *)

\* C9 as stated: every code has at least one label, and INVALID is among
\* them exactly when the directory list is empty.
C9_InvalidIffNoDirectory ==
    Done =>
      \A c \in Codes :
        /\ cmp_res[c] # <<>>
        /\ ("INVALID" \in Range(cmp_res[c])) <=> (N = 0)

\* C9 amended: every code has at least one label and INVALID is never among
\* them; with an empty directory list every code is labelled MATCH_ALL.
C9_InvalidNever ==
    Done =>
      \A c \in Codes :
        /\ cmp_res[c] # <<>>
        /\ "INVALID" \notin Range(cmp_res[c])
        /\ (N = 0) => cmp_res[c] = << "MATCH_ALL" >>

\* a code has been classified against the empty directory list
C9_Witness ==
    Done /\ N = 0 /\ Codes # {}

(* -------------------------------- C10 ---------------------------------- *)

\* the count vector compare computes for code c
Counts(c) == count_arr(obj_index.detected[c], cmp_dirpaths)

\* every file of code c lies under none of the directories
Outside(c) ==
    \A k \in DOMAIN obj_index.detected[c] :
      \A i \in 1..N : ~Contains(cmp_dirpaths[i], obj_index.detected[c][k])

\* C10 as stated: each count is the number of the code's paths that begin
\* with the directory followed by the separator, and a code found only
\* outside the directories is labelled MISSING.
C10_OutsideIsMissing ==
    Done =>
      \A c \in Codes :
        /\ Len(Counts(c)) = N
        /\ \A i \in 1..N : Counts(c)[i] = Hits(c, i)
        /\ Outside(c) => cmp_res[c] = << "MISSING" >>

\* C10 amended: the same, the label being MISSING when there is at least one
\* directory (with none the count vector is empty and the label MATCH_ALL).
C10_OutsideIsMissingGivenDirectory ==
    Done =>
      \A c \in Codes :
        /\ Len(Counts(c)) = N
        /\ \A i \in 1..N : Counts(c)[i] = Hits(c, i)
        /\ Outside(c) =>
             /\ \A i \in 1..N : Counts(c)[i] = 0
             /\ cmp_res[c] = (IF N >= 1 THEN << "MISSING" >> ELSE << "MATCH_ALL" >>)

\* a code found only in the sibling directory "ab" has been classified
\* against the directory "a"
C10_Witness ==
    /\ Done
    /\ cmp_dirpaths = << <<"a">> >>
    /\ \E c \in Codes : obj_index.detected[c] = << <<"a", "b", "/", "1">> >>

(* -------------------------------- C4 ----------------------------------- *)

\* the items of objs in every order
Reorderings(objs) ==
    { [ k \in DOMAIN objs |-> objs[f[k]] ] : f \in Permutations(DOMAIN objs) }

\* C4: create_index followed by compare gives every code the same labels
\* whatever the order of the decoded items.
C4_OrderIndependent ==
    Done =>
      \A objs \in Reorderings(dec_objs) :
        compare(create_index(objs), cmp_dirpaths) = cmp_res

\* some reordering of the scanned items builds a different index, with
\* the path lists of a code in another order
C4_Witness ==
    /\ Done
    /\ N = 2
    /\ \E objs \in Reorderings(dec_objs) :
         /\ create_index(objs).keys # obj_index.keys
         /\ \E c \in Codes : create_index(objs).detected[c] # obj_index.detected[c]

(* -------------------------------- C6 ----------------------------------- *)

\* the items the scan has produced for one file
ItemsOf(filepath) == SelectSeq(dec_objs, LAMBDA obj : obj.filepath = filepath)

\* C6: a file whose decoding raised or found nothing yields exactly one
\* not-detected item; the index is built only after every file was scanned;
\* the detected lists and the undetected list together hold exactly the
\* scanned files, and no failed file is under a detected code.
C6_FailedFileIsUndetected ==
    /\ \A k \in 1..scanned :
         Failed(files[k]) =>
           /\ Len(ItemsOf(files[k].filepath)) = 1
           /\ is_not_detected(ItemsOf(files[k].filepath)[1])
    /\ Indexed =>
         /\ scanned = Len(files)
         /\ { p \in Range(AllFiles) : InUndetected(p) \/ InDetected(p) }
              = { files[k].filepath : k \in DOMAIN files }
         /\ \A k \in DOMAIN files :
              Failed(files[k]) =>
                /\ ~InDetected(files[k].filepath)
                /\ Occ(obj_index.undetected, files[k].filepath) = 1

\* a file whose decoding raised was followed by a file with a code, and by a
\* file without any symbol, and all three are in the index
C6_Witness ==
    /\ Indexed
    /\ Len(files) = 3
    /\ files[1].outcome.raises
    /\ InDetected(files[2].filepath)
    /\ ~files[3].outcome.raises /\ files[3].outcome.objs = <<>>

(* -------------------------------- C7 ----------------------------------- *)

\* the rows of the report after the rows of the codes
ExtraRows == SubSeq(report.rows, Len(obj_index.keys) + 1, Len(report.rows))

\* row r shows the file fp: its path relative to every directory that
\* contains it, and a blank elsewhere
ShowsFile(r, fp) ==
    /\ Len(r.cols) = N
    /\ \A i \in 1..N :
         IF Contains(cmp_dirpaths[i], fp)
         THEN cmp_dirpaths[i] \o << "/" >> \o r.cols[i] = fp
         ELSE r.cols[i] = <<>>

CodeRows == SubSeq(report.rows, 1, Len(obj_index.keys))

\* how many scanned items carry code c for the file fp
Produced(c, fp) ==
    Cardinality({ k \in DOMAIN dec_objs :
                    dec_objs[k].code = c /\ dec_objs[k].filepath = fp })

\* the codes the scan detected
DetectedCodes ==
    { dec_objs[k].code : k \in { j \in DOMAIN dec_objs : ~is_not_detected(dec_objs[j]) } }

\* the entries of a column, made absolute again
Absolute(dirpath, col) == [ j \in DOMAIN col |-> dirpath \o << "/" >> \o col[j] ]

\* C8: the report has exactly one row per detected code; in the row of a
\* code the column of a directory holds, as relative paths, exactly the
\* files under that directory that produced the code, each as often as it
\* was input; and the column is as long as the count used for the labels.
C8_ReportRoundTrip ==
    Done =>
      /\ Len(CodeRows) = Cardinality(DetectedCodes)
      /\ { CodeRows[k].code : k \in DOMAIN CodeRows } = DetectedCodes
      /\ Len(report.rows) = Len(CodeRows) + Len(ExtraRows)
      /\ \A k \in DOMAIN CodeRows :
           LET c == CodeRows[k].code
           IN  /\ Len(CodeRows[k].cols) = N
               /\ \A i \in 1..N :
                    /\ \A fp \in Range(AllFiles) :
                         Occ(Absolute(cmp_dirpaths[i], CodeRows[k].cols[i]), fp)
                           = (IF Contains(cmp_dirpaths[i], fp) THEN Produced(c, fp) ELSE 0)
                    /\ Range(Absolute(cmp_dirpaths[i], CodeRows[k].cols[i]))
                         \subseteq Range(AllFiles)
                    /\ Len(CodeRows[k].cols[i]) = Counts(c)[i]

\* two codes are in the report, one of them found twice in one file of the
\* first directory and absent from the second
C8_Witness ==
    /\ Done
    /\ N = 2
    /\ Len(CodeRows) = 2
    /\ \E k \in DOMAIN CodeRows :
         /\ Len(CodeRows[k].cols[1]) = 2
         /\ CodeRows[k].cols[1][1] = CodeRows[k].cols[1][2]
         /\ CodeRows[k].cols[2] = <<>>

====
